---------------------------- MODULE Spec2Model ----------------------------
(***************************************************************************)
(* The feedback governance workflow of the content intelligence platform: *)
(* FeedbackService (src/app/services/feedback_service.py) with its three   *)
(* collections feedback_store, rule_overrides and audit_trail.             *)
(*                                                                         *)
(* Each FeedbackService operation is an async method without an await in   *)
(* its body, so the event loop runs a call's body as one step: one action  *)
(* per operation.  Names are read as the code means them: the members the  *)
(* service writes as FeedbackStatus.pending, FeedbackStatus.withdrawn,     *)
(* UserRole.finance_admin and the field review.status are the status       *)
(* values, the admin role and the reviewer's decision.                     *)
(*                                                                         *)
(* Ids are sha256 digests of a content string, cut to 16 hex digits.  The  *)
(* digest is modelled by its content tuple: two ids are equal exactly when *)
(* the hashed contents are equal.  The clock is datetime.utcnow(): it      *)
(* never runs backwards, and two calls may read the same value.            *)
(***************************************************************************)
EXTENDS Integers, Sequences, FiniteSets, TLC

\* ------------------------------------------------------------------ bounds
MaxClock == 1
MaxAudit == 2
MaxEvents == 2
MaxAuditDeep == 5
MaxInflight == 2
MaxAuditConc == 3
MaxAuditShort == 3
MaxAuditList == 7
MaxAuditWindow == 4
MaxAuditPair == 6

\* FeedbackSearchRequest.page_size: Field(50, ge=1, le=100)
PageSizeMax == 100

\* ------------------------------------------------------------- enumerations
UserRole == {"finance_admin", "strategy_analyst", "marketing_user", "read_only"}

FeedbackStatus == {"pending", "approved", "rejected", "applied", "under_review"}

\* The users of the system, by user.id: an administrator, an analyst and a
\* read-only user.  (The service reads no role but finance_admin; a marketing
\* user differs from the analyst only in the capabilities of the table below.)
Users == {1, 2, 3}

RoleOf(u) ==
    CASE u = 1 -> "finance_admin"
      [] u = 2 -> "strategy_analyst"
      [] OTHER -> "read_only"

FeedbackTypes == {"override"}
TargetTypes == {"metric"}

\* the targets a submission names
TargetIds == {"roi", "cpm"}

\* FeedbackSubmission.description: a text of at least ten characters, as the
\* sequence of its characters
RoiTooLow == <<"R", "O", "I", " ", "t", "o", "o", " ", "l", "o", "w">>
CpmMisread == <<"c", "p", "m", " ", "m", "i", "s", "r", "e", "a", "d">>
Descriptions == {RoiTooLow, CpmMisread}

\* FeedbackApplication inputs: the rule named and the values it carries.
Applications ==
    { [rule_type |-> "cost", rule_name |-> "alloc",
       old_value |-> [value |-> "v0"], new_value |-> [value |-> "v1"],
       effective_from |-> << >>, effective_until |-> << >>] }

\* applications giving the window in which the rule holds
WindowApplications ==
    { [rule_type |-> "cost", rule_name |-> "alloc",
       old_value |-> [value |-> "v0"], new_value |-> [value |-> "v1"],
       effective_from |-> from, effective_until |-> until] :
      from \in {<< >>, <<1>>}, until \in {<< >>, <<0>>, <<1>>} }

\* applications of two rules, effective from a given time on
RuleApplications ==
    { [rule_type |-> "cost", rule_name |-> name,
       old_value |-> [value |-> "v0"], new_value |-> [value |-> "v1"],
       effective_from |-> <<from>>, effective_until |-> << >>] :
      name \in {"alloc", "split"}, from \in {0, 1} }

\* FeedbackReview inputs: the decision the service reads as review.status, and notes.
Reviews == [status : FeedbackStatus, notes : {"n"}]

Times == 0 .. MaxClock

\* the table with ml:write left out of the admin's list
role_permissions_admin_short(role) ==
    CASE role = "finance_admin" ->
           {"content:read", "content:write", "content:delete",
            "feedback:read", "feedback:write", "feedback:apply",
            "definitions:read", "definitions:write",
            "users:read", "users:write", "users:delete",
            "audit:read", "metrics:read", "ml:read"}
      [] role = "strategy_analyst" ->
           {"content:read", "content:write",
            "feedback:read", "feedback:write",
            "definitions:read", "definitions:write",
            "metrics:read", "ml:read", "ml:write"}
      [] role = "marketing_user" ->
           {"content:read", "content:write",
            "feedback:read", "feedback:write",
            "definitions:read", "metrics:read", "ml:read"}
      [] role = "read_only" ->
           {"content:read", "definitions:read", "metrics:read"}
      [] OTHER -> {}

\* PermissionService.role_permissions: the capabilities of each role
role_permissions(role) ==
    CASE role = "finance_admin" ->
           {"content:read", "content:write", "content:delete",
            "feedback:read", "feedback:write", "feedback:apply",
            "definitions:read", "definitions:write",
            "users:read", "users:write", "users:delete",
            "audit:read", "metrics:read", "ml:read", "ml:write"}
      [] role = "strategy_analyst" ->
           {"content:read", "content:write",
            "feedback:read", "feedback:write",
            "definitions:read", "definitions:write",
            "metrics:read", "ml:read", "ml:write"}
      [] role = "marketing_user" ->
           {"content:read", "content:write",
            "feedback:read", "feedback:write",
            "definitions:read", "metrics:read", "ml:read"}
      [] role = "read_only" ->
           {"content:read", "definitions:read", "metrics:read"}
      [] OTHER -> {}

has_permission(user, permission) == permission \in role_permissions(RoleOf(user))

\* the same check for a user of the role given
role_has_permission(role, permission) == permission \in role_permissions(role)

\* models/auth.py PERMISSIONS, read with .get(role, [])
PERMISSIONS(role) ==
    CASE role = "finance_admin" ->
           {"read:content", "write:content", "read:costs", "write:costs",
            "read:revenue", "write:revenue",
            "read:feedback", "write:feedback", "apply:feedback",
            "read:reports", "write:reports", "read:users", "write:users",
            "read:finance_rules", "write:finance_rules"}
      [] role = "strategy_analyst" ->
           {"read:content", "write:content", "read:costs", "read:revenue",
            "read:feedback", "write:feedback",
            "read:reports", "write:reports", "read:finance_rules"}
      [] role = "marketing_user" ->
           {"read:content", "write:content", "read:costs", "read:revenue",
            "read:feedback", "write:feedback", "read:reports"}
      [] role = "read_only" ->
           {"read:content", "read:costs", "read:revenue", "read:reports"}
      [] OTHER -> {}

\* models/auth.py has_permission(user_role, required_permission)
auth_has_permission(user_role, required_permission) ==
    required_permission \in PERMISSIONS(user_role)

\* the roles asked about: the four of UserRole and one that is none of them
RolesAsked == UserRole \cup {"guest"}

\* the capabilities asked about: those of either table
Capabilities ==
    UNION {role_permissions(r) : r \in UserRole} \cup UNION {PERMISSIONS(r) : r \in UserRole}

VARIABLES
    feedback_store,   \* FeedbackService.feedback_store: id -> FeedbackEvent
    rule_overrides,   \* FeedbackService.rule_overrides: id -> RuleOverride
    audit_trail,      \* FeedbackService.audit_trail: list of AuditTrail
    now,              \* the value datetime.utcnow() returns
    last,             \* the latest call: operation, caller, id and outcome
    reached_applied,  \* history: the ids of the events that have had status applied
    inflight,         \* review calls issued whose body has not run yet
    done,             \* the review calls that were in flight, with their outcomes
    feedback_keys,    \* the keys of feedback_store in the dict's (insertion) order
    override_keys,    \* the keys of rule_overrides in the dict's (insertion) order
    out               \* the latest read call: its request and what it returned

vars == <<feedback_store, rule_overrides, audit_trail, now, last,
          reached_applied, inflight, done, feedback_keys, override_keys, out>>

\* ------------------------------------------------------------------ helpers
None == << >>
Some(x) == <<x>>

\* an assignment that binds every key of the dict to v
Put_every_key(d, k, v) == [x \in DOMAIN d \cup {k} |-> v]

\* dict assignment d[k] = v: adds the key or replaces the value under it
Put(d, k, v) == [x \in DOMAIN d \cup {k} |-> IF x = k THEN v ELSE d[x]]

EmptyDict == [x \in {} |-> x]

\* the key order of a dict after d[k] = v: a new key goes last, a key already
\* present keeps its place
PutKey(keys, d, k) == IF k \in DOMAIN d THEN keys ELSE Append(keys, k)

generate_feedback_id(actor, ftype, ttype, timestamp) ==
    <<actor, ftype, ttype, timestamp>>

generate_override_id(fid, application, timestamp) ==
    <<fid, application.rule_type, application.rule_name, timestamp>>

\* an entry put first, as list.insert(0, entry) in place of append would leave it
add_audit_entry_first(trail, action, actor_id, target_type, target_id, old_value, new_value) ==
    <<[id |-> Len(trail) + 1,
       action |-> action,
       actor_id |-> actor_id,
       target_type |-> target_type,
       target_id |-> target_id,
       old_value |-> old_value,
       new_value |-> new_value,
       timestamp |-> now]>> \o trail

\* an entry numbered by the length of the trail before the append
add_audit_entry_id_len(trail, action, actor_id, target_type, target_id, old_value, new_value) ==
    Append(trail,
           [id |-> Len(trail),
            action |-> action,
            actor_id |-> actor_id,
            target_type |-> target_type,
            target_id |-> target_id,
            old_value |-> old_value,
            new_value |-> new_value,
            timestamp |-> now])

\* _add_audit_entry: the trail with the new entry appended, id = length + 1
add_audit_entry(trail, action, actor_id, target_type, target_id, old_value, new_value) ==
    Append(trail,
           [id |-> Len(trail) + 1,
            action |-> action,
            actor_id |-> actor_id,
            target_type |-> target_type,
            target_id |-> target_id,
            old_value |-> old_value,
            new_value |-> new_value,
            timestamp |-> now])

\* dict.values(): the values in the order of the keys
values(d, keys) == [i \in 1 .. Len(keys) |-> d[keys[i]]]

Call(op, actor, fid, result) ==
    [op |-> op, actor |-> actor, fid |-> fid, result |-> result]

NoCall == Call("none", 0, None, "")

Init ==
    /\ feedback_store = EmptyDict
    /\ rule_overrides = EmptyDict
    /\ audit_trail = << >>
    /\ now = 0
    /\ last = NoCall
    /\ reached_applied = {}
    /\ inflight = {}
    /\ done = {}
    /\ feedback_keys = << >>
    /\ override_keys = << >>
    /\ out = None

\* the clock advances between calls
Tick ==
    /\ now < MaxClock
    /\ now' = now + 1
    /\ UNCHANGED <<feedback_store, rule_overrides, audit_trail, last,
                   reached_applied, inflight, done, feedback_keys, override_keys, out>>

\* an id no submission produces (no user has id 0): stands for every unknown id
UnknownId == generate_feedback_id(0, "override", "metric", 0)

\* the ids a caller names: those of the stored events, and an unknown one
CallIds == DOMAIN feedback_store \cup {UnknownId}

StatusOf(f) == feedback_store[f].status

\* the model explores calls while the collections stay within the bounds
Bounded(cap) ==
    /\ Len(audit_trail') <= cap
    /\ Cardinality(DOMAIN feedback_store') <= MaxEvents

\* the history variable follows the store
Track ==
    reached_applied' = reached_applied \cup
        {f \in DOMAIN feedback_store' : feedback_store'[f].status = "applied"}

\* ---------------------------------------------------------------- submit
NewEvent(fid, actor, ftype, ttype, target_id, description) ==
    [id |-> fid,
     target_id |-> target_id,
     description |-> description,
     actor_id |-> actor,
     actor_role |-> RoleOf(actor),
     feedback_type |-> ftype,
     target_type |-> ttype,
     status |-> "pending",
     review_notes |-> None,
     reviewed_by |-> None,
     reviewed_at |-> None,
     applied_by |-> None,
     applied_at |-> None,
     created_at |-> now,
     updated_at |-> now]

submit_feedback(actor, ftype, ttype, target_id, description) ==
    LET fid == generate_feedback_id(actor, ftype, ttype, now)
        ev  == NewEvent(fid, actor, ftype, ttype, target_id, description)
    IN  /\ feedback_store' = Put(feedback_store, fid, ev)
        /\ audit_trail' = add_audit_entry(audit_trail, "feedback_submitted", actor,
                                           "feedback", fid, None, ev)
        /\ feedback_keys' = PutKey(feedback_keys, feedback_store, fid)
        /\ last' = Call("submit", actor, fid, "ok")
        /\ UNCHANGED <<rule_overrides, override_keys, now>>

\* ---------------------------------------------------------------- review
Reviewed(ev, review, reviewer) ==
    [ev EXCEPT !.status = review.status,
               !.review_notes = Some(review.notes),
               !.reviewed_by = Some(reviewer),
               !.reviewed_at = Some(now),
               !.updated_at = now]

review_feedback(fid, review, reviewer) ==
    IF fid \notin DOMAIN feedback_store
    THEN /\ last' = Call("review", reviewer, fid, "not_found")
         /\ UNCHANGED <<feedback_store, rule_overrides, audit_trail, now,
                        feedback_keys, override_keys>>
    ELSE /\ feedback_store' = Put(feedback_store, fid,
                                   Reviewed(feedback_store[fid], review, reviewer))
         /\ audit_trail' = add_audit_entry(audit_trail, "feedback_reviewed", reviewer,
                                           "feedback", fid, [status |-> "pending"],
                                           [status |-> review.status, notes |-> review.notes])
         /\ last' = Call("review", reviewer, fid, "ok")
         /\ UNCHANGED <<rule_overrides, feedback_keys, override_keys, now>>

\* ----------------------------------------------------------------- apply
\* a laxer state check, as a slip in the comparison would leave it
CanApply_or_pending(status) == status \in {"approved", "pending"}

\* no state check at all
CanApply_any(status) == TRUE

\* "if feedback.status != FeedbackStatus.approved: raise"
CanApply(status) == status = "approved"

NewOverride(oid, fid, application, applier) ==
    [id |-> oid,
     feedback_id |-> fid,
     rule_type |-> application.rule_type,
     rule_name |-> application.rule_name,
     old_value |-> application.old_value,
     new_value |-> application.new_value,
     applied_by |-> applier,
     applied_at |-> now,
     effective_from |-> IF application.effective_from = None
                        THEN now ELSE application.effective_from[1],
     effective_until |-> application.effective_until,
     is_active |-> TRUE]

Applied(ev) ==
    [ev EXCEPT !.status = "applied", !.applied_at = Some(now), !.updated_at = now]

apply_feedback(fid, application, applier) ==
    IF fid \notin DOMAIN feedback_store
    THEN /\ last' = Call("apply", applier, fid, "not_found")
         /\ UNCHANGED <<feedback_store, rule_overrides, audit_trail, now,
                        feedback_keys, override_keys>>
    ELSE IF ~CanApply(feedback_store[fid].status)
    THEN /\ last' = Call("apply", applier, fid, "must_be_approved")
         /\ UNCHANGED <<feedback_store, rule_overrides, audit_trail, now,
                        feedback_keys, override_keys>>
    ELSE LET oid == generate_override_id(fid, application, now)
         IN  /\ rule_overrides' = Put(rule_overrides, oid,
                                       NewOverride(oid, fid, application, applier))
             /\ feedback_store' = Put(feedback_store, fid, Applied(feedback_store[fid]))
             /\ audit_trail' = add_audit_entry(audit_trail, "feedback_applied", applier,
                                               "rule_override", oid,
                                               application.old_value, application.new_value)
             /\ override_keys' = PutKey(override_keys, rule_overrides, oid)
             /\ last' = Call("apply", applier, fid, "ok")
             /\ UNCHANGED <<feedback_keys, now>>

\* -------------------------------------------------------------- withdraw
MayWithdraw(actor, ev) == ~(RoleOf(actor) # "finance_admin" /\ ev.actor_id # actor)

Withdrawn(ev) == [ev EXCEPT !.status = "withdrawn", !.updated_at = now]

\* a withdrawal that writes its audit entry before it looks the event up
withdraw_feedback_audit_first(fid, actor) ==
    /\ audit_trail' = add_audit_entry(audit_trail, "feedback_withdrawn", actor,
                                       "feedback", fid, None, [status |-> "withdrawn"])
    /\ feedback_store' = IF fid \in DOMAIN feedback_store
                         THEN Put(feedback_store, fid, Withdrawn(feedback_store[fid]))
                         ELSE feedback_store
    /\ last' = Call("withdraw", actor, fid,
                    IF fid \in DOMAIN feedback_store THEN "ok" ELSE "not_found")
    /\ UNCHANGED <<rule_overrides, feedback_keys, override_keys, now>>

withdraw_feedback(fid, actor) ==
    IF fid \notin DOMAIN feedback_store
    THEN /\ last' = Call("withdraw", actor, fid, "not_found")
         /\ UNCHANGED <<feedback_store, rule_overrides, audit_trail, now,
                        feedback_keys, override_keys>>
    ELSE IF ~MayWithdraw(actor, feedback_store[fid])
    THEN /\ last' = Call("withdraw", actor, fid, "only_submitter_or_admin")
         /\ UNCHANGED <<feedback_store, rule_overrides, audit_trail, now,
                        feedback_keys, override_keys>>
    ELSE /\ feedback_store' = Put(feedback_store, fid, Withdrawn(feedback_store[fid]))
         /\ audit_trail' = add_audit_entry(audit_trail, "feedback_withdrawn", actor,
                                           "feedback", fid,
                                           [status |-> feedback_store[fid].status],
                                           [status |-> "withdrawn"])
         /\ last' = Call("withdraw", actor, fid, "ok")
         /\ UNCHANGED <<rule_overrides, feedback_keys, override_keys, now>>

\* ------------------------------------------- a call whose audit append raises
\* _add_audit_entry is the last statement of each operation and no operation
\* catches what it raises: the exception leaves the call with the assignments
\* made before it in place.
review_feedback_audit_raises(fid, review, reviewer) ==
    /\ fid \in DOMAIN feedback_store
    /\ feedback_store' = Put(feedback_store, fid,
                              Reviewed(feedback_store[fid], review, reviewer))
    /\ last' = Call("review", reviewer, fid, "audit_append_raised")
    /\ UNCHANGED <<rule_overrides, audit_trail, feedback_keys, override_keys, now>>

apply_feedback_audit_raises(fid, application, applier) ==
    /\ fid \in DOMAIN feedback_store
    /\ CanApply(feedback_store[fid].status)
    /\ LET oid == generate_override_id(fid, application, now)
       IN  /\ rule_overrides' = Put(rule_overrides, oid,
                                     NewOverride(oid, fid, application, applier))
           /\ override_keys' = PutKey(override_keys, rule_overrides, oid)
    /\ feedback_store' = Put(feedback_store, fid, Applied(feedback_store[fid]))
    /\ last' = Call("apply", applier, fid, "audit_append_raised")
    /\ UNCHANGED <<audit_trail, feedback_keys, now>>

withdraw_feedback_audit_raises(fid, actor) ==
    /\ fid \in DOMAIN feedback_store
    /\ MayWithdraw(actor, feedback_store[fid])
    /\ feedback_store' = Put(feedback_store, fid, Withdrawn(feedback_store[fid]))
    /\ last' = Call("withdraw", actor, fid, "audit_append_raised")
    /\ UNCHANGED <<rule_overrides, audit_trail, feedback_keys, override_keys, now>>

\* ----------------------------------------------------------------- reads
Min(a, b) == IF a < b THEN a ELSE b
Max(a, b) == IF a > b THEN a ELSE b

\* s[start:stop] of a Python list: an index below zero counts from the end,
\* and indices beyond the ends are cut to them
py_index(i, n) == IF i < 0 THEN Max(0, n + i) ELSE Min(i, n)
py_slice(s, start, stop) ==
    SubSeq(s, py_index(start, Len(s)) + 1, py_index(stop, Len(s)))

\* the order of the status values as strings
StatusRank(status) ==
    CASE status = "applied" -> 1
      [] status = "approved" -> 2
      [] status = "pending" -> 3
      [] status = "rejected" -> 4
      [] status = "under_review" -> 5
      [] OTHER -> 6

SortKey(e, field) == IF field = "status" THEN StatusRank(e.status) ELSE e[field]

\* list.sort(key=lambda x: x.<field>, reverse=...): stable, and with reverse the
\* order is descending while elements of equal key keep their order
RECURSIVE list_sort(_, _, _)
list_sort(s, field, reverse) ==
    IF s = << >> THEN << >>
    ELSE LET init == list_sort(SubSeq(s, 1, Len(s) - 1), field, reverse)
             e == s[Len(s)]
             Stays(x) == IF reverse THEN SortKey(x, field) >= SortKey(e, field)
                                    ELSE SortKey(x, field) <= SortKey(e, field)
             k == Cardinality({i \in 1 .. Len(init) : Stays(init[i])})
         IN  SubSeq(init, 1, k) \o <<e>> \o SubSeq(init, k + 1, Len(init))

\* get_audit_trail: the entries passing the filters given, newest first, cut to limit
get_audit_trail(start_date, end_date, actor_id, action, limit) ==
    LET Keep(entry) ==
            /\ ~(start_date # None /\ entry.timestamp < start_date[1])
            /\ ~(end_date # None /\ entry.timestamp > end_date[1])
            /\ ~(actor_id # None /\ entry.actor_id # actor_id[1])
            /\ ~(action # None /\ entry.action # action[1])
        filtered_entries == SelectSeq(audit_trail, Keep)
    IN  py_slice(list_sort(filtered_entries, "timestamp", TRUE), 0, limit)

Opt(S) == {None} \cup {Some(x) : x \in S}

\* the call without arguments (limit defaults to 100), and calls giving one argument
AuditArgs == [start_date |-> None, end_date |-> None, actor_id |-> None,
              action |-> None, limit |-> 100]

AuditRequests ==
    {AuditArgs,
     [AuditArgs EXCEPT !.start_date = Some(1)],
     [AuditArgs EXCEPT !.end_date = Some(0)],
     [AuditArgs EXCEPT !.actor_id = Some(1)],
     [AuditArgs EXCEPT !.action = Some("feedback_reviewed")],
     [AuditArgs EXCEPT !.limit = 1]}

GetAuditTrail ==
    \E r \in AuditRequests :
        /\ out' = [op |-> "get_audit_trail",
                   request |-> r,
                   response |-> get_audit_trail(r.start_date, r.end_date, r.actor_id,
                                                r.action, r.limit)]
        /\ last' = Call("get_audit_trail", 0, None, "ok")
        /\ UNCHANGED <<feedback_store, rule_overrides, audit_trail, now,
                       reached_applied, inflight, done, feedback_keys, override_keys>>

\* FeedbackSearchRequest: page has ge=1, page_size has ge=1 and le=100; a request
\* outside these is not constructed (pydantic raises a ValidationError)
valid_page(page) == page >= 1

\* the validator without its upper limit, as Field(50, ge=1) would leave it
valid_page_size_no_limit(page_size) == page_size >= 1

valid_page_size(page_size) == page_size >= 1 /\ page_size <= PageSizeMax

\* the first index counted from the page number itself, as a 0-indexed page would be
start_idx_of_next_page(page, page_size) == page * page_size

start_idx(page, page_size) == (page - 1) * page_size

\* the stored events passing every filter of the request that is given, sorted
sorted_matches(request) ==
    LET Keep(feedback) ==
            /\ ~(request.status # None /\ feedback.status # request.status[1])
            /\ ~(/\ request.feedback_type # None
                 /\ feedback.feedback_type # request.feedback_type[1])
            /\ ~(/\ request.target_type # None
                 /\ feedback.target_type # request.target_type[1])
            /\ ~(request.actor_role # None /\ feedback.actor_role # request.actor_role[1])
            /\ ~(request.date_from # None /\ feedback.created_at < request.date_from[1])
            /\ ~(request.date_to # None /\ feedback.created_at > request.date_to[1])
        filtered_feedback == SelectSeq(values(feedback_store, feedback_keys), Keep)
    IN  IF request.sort_by = "created_at"
        THEN list_sort(filtered_feedback, "created_at", request.sort_order = "desc")
        ELSE IF request.sort_by = "status"
        THEN list_sort(filtered_feedback, "status", request.sort_order = "desc")
        ELSE filtered_feedback

\* search_feedback: the page of the sorted matches, and their number
search_feedback(request) ==
    LET filtered_feedback == sorted_matches(request)
        first == start_idx(request.page, request.page_size)
        end_idx == first + request.page_size
    IN  [feedback |-> py_slice(filtered_feedback, first, end_idx),
         total_count |-> Len(filtered_feedback),
         page |-> request.page,
         page_size |-> request.page_size]

\* the request without filters: every field but the page at its default
SearchArgs == [query |-> None, feedback_type |-> None, status |-> None,
               actor_role |-> None, target_type |-> None,
               date_from |-> None, date_to |-> None,
               sort_by |-> "created_at", sort_order |-> "desc",
               page |-> 1, page_size |-> PageSizeMax]

\* requests for the pages of every size, in range and out of it
PageRequests ==
    {[SearchArgs EXCEPT !.page = p, !.page_size = ps] :
       p \in 0 .. 3, ps \in {0, 1, 2, PageSizeMax, PageSizeMax + 1}}

\* requests giving filters
FilterRequests ==
    {[SearchArgs EXCEPT !.status = Some("approved")],
     [SearchArgs EXCEPT !.feedback_type = Some("rule_change")],
     [SearchArgs EXCEPT !.target_type = Some("metric")],
     [SearchArgs EXCEPT !.actor_role = Some("finance_admin")],
     [SearchArgs EXCEPT !.date_from = Some(1)],
     [SearchArgs EXCEPT !.date_to = Some(0)],
     [SearchArgs EXCEPT !.query = Some(<<"r", "o", "i">>)],
     [SearchArgs EXCEPT !.status = Some("pending"),
                        !.actor_role = Some("strategy_analyst")],
     [SearchArgs EXCEPT !.sort_order = "asc"],
     [SearchArgs EXCEPT !.sort_by = "status"],
     [SearchArgs EXCEPT !.sort_by = "priority"]}

Search(R) ==
    \E request \in R :
        /\ IF valid_page(request.page) /\ valid_page_size(request.page_size)
           THEN /\ out' = [op |-> "search", request |-> request,
                           response |-> search_feedback(request)]
                /\ last' = Call("search", 0, None, "ok")
           ELSE /\ out' = [op |-> "search", request |-> request, response |-> None]
                /\ last' = Call("search", 0, None, "validation_error")
        /\ UNCHANGED <<feedback_store, rule_overrides, audit_trail, now,
                       reached_applied, inflight, done, feedback_keys, override_keys>>

\* the comparison that drops an override whose window has ended; with <= an
\* override ending at this very moment would be dropped too
Expired_or_ending(until, current_time) == until <= current_time

Expired(until, current_time) == until < current_time

\* get_rule_overrides: the overrides passing the filters, latest effective_from first
get_rule_overrides(rule_type, active_only) ==
    LET current_time == now
        Keep(override) ==
            /\ ~(rule_type # None /\ override.rule_type # rule_type[1])
            /\ ~(/\ active_only
                 /\ override.effective_until # None
                 /\ Expired(override.effective_until[1], current_time))
            /\ ~(active_only /\ override.effective_from > current_time)
        filtered_overrides == SelectSeq(values(rule_overrides, override_keys), Keep)
    IN  list_sort(filtered_overrides, "effective_from", TRUE)

GetRuleOverrides ==
    \E rule_type \in Opt({"revenue"}), active_only \in BOOLEAN :
        /\ out' = [op |-> "get_rule_overrides",
                   request |-> [rule_type |-> rule_type, active_only |-> active_only],
                   at |-> now,
                   response |-> get_rule_overrides(rule_type, active_only)]
        /\ last' = Call("get_rule_overrides", 0, None, "ok")
        /\ UNCHANGED <<feedback_store, rule_overrides, audit_trail, now,
                       reached_applied, inflight, done, feedback_keys, override_keys>>

HasPermission ==
    \E role \in RolesAsked, permission \in Capabilities :
        /\ out' = [op |-> "has_permission",
                   request |-> [role |-> role, permission |-> permission],
                   response |-> role_has_permission(role, permission)]
        /\ last' = Call("has_permission", 0, None, "ok")
        /\ UNCHANGED <<feedback_store, rule_overrides, audit_trail, now,
                       reached_applied, inflight, done, feedback_keys, override_keys>>

AuthHasPermission ==
    \E role \in RolesAsked, permission \in Capabilities :
        /\ out' = [op |-> "auth_has_permission",
                   request |-> [role |-> role, permission |-> permission],
                   response |-> auth_has_permission(role, permission)]
        /\ last' = Call("auth_has_permission", 0, None, "ok")
        /\ UNCHANGED <<feedback_store, rule_overrides, audit_trail, now,
                       reached_applied, inflight, done, feedback_keys, override_keys>>

\* the class of the exception a rejected review, apply or withdraw raises, by
\* the raise that rejected it
exception_type(result) ==
    CASE result = "not_found" -> "ValueError"
      [] result = "must_be_approved" -> "ValueError"
      [] result = "only_submitter_or_admin" -> "ValueError"
      [] OTHER -> "none"

\* ------------------------------------------------------- the endpoints
\* feedback_router.py: each handler runs its permission or role check and the
\* call of the service inside one try block.  A denial is an
\* HTTPException(403) raised inside the block.  "except Exception" catches it
\* with everything else and answers 500, unless an "except HTTPException: raise"
\* stands before it.
caught_by_except_Exception(code) == "500"
reraised_by_except_HTTPException(code) == code

\* what the caller of an endpoint gets
Response(op, user, fid, denied, code) ==
    [op |-> op, request |-> [user |-> user, fid |-> fid], denied |-> denied,
     response |-> code]

\* an endpoint that answers without having called the service
Answer(op, user, fid, denied, code) ==
    /\ out' = Response(op, user, fid, denied, code)
    /\ last' = Call(op, user, fid, code)
    /\ UNCHANGED <<feedback_store, rule_overrides, audit_trail, now,
                   reached_applied, inflight, done, feedback_keys, override_keys>>

\* an endpoint whose call of the service returned, or raised a ValueError
Served(op, user, fid, success) ==
    /\ out' = Response(op, user, fid, FALSE,
                       IF last'.result = "ok" THEN success
                       ELSE caught_by_except_Exception("ValueError"))
    /\ Track /\ UNCHANGED <<inflight, done>>

submit_feedback_endpoint(current_user, ftype, ttype, target_id, description) ==
    IF ~has_permission(current_user, "write:feedback")
    THEN Answer("submit_feedback_endpoint", current_user, None, TRUE,
                caught_by_except_Exception("403"))
    ELSE /\ submit_feedback(current_user, ftype, ttype, target_id, description)
         /\ Served("submit_feedback_endpoint", current_user, None, "201")

review_feedback_endpoint(feedback_id, review_data, current_user) ==
    IF RoleOf(current_user) \notin {"finance_admin", "strategy_analyst"}
    THEN Answer("review_feedback_endpoint", current_user, feedback_id, TRUE,
                reraised_by_except_HTTPException("403"))
    ELSE /\ review_feedback(feedback_id, review_data, current_user)
         /\ Served("review_feedback_endpoint", current_user, feedback_id, "200")

apply_feedback_endpoint(feedback_id, application, current_user) ==
    IF RoleOf(current_user) # "finance_admin"
    THEN Answer("apply_feedback_endpoint", current_user, feedback_id, TRUE,
                caught_by_except_Exception("403"))
    ELSE /\ apply_feedback(feedback_id, application, current_user)
         /\ Served("apply_feedback_endpoint", current_user, feedback_id, "200")

\* the router's own withdrawal: it does not call the service
withdraw_feedback_endpoint(feedback_id, current_user) ==
    LET op == "withdraw_feedback_endpoint" IN
    IF ~has_permission(current_user, "write:feedback")
    THEN Answer(op, current_user, feedback_id, TRUE,
                reraised_by_except_HTTPException("403"))
    ELSE IF feedback_id \notin DOMAIN feedback_store
    THEN Answer(op, current_user, feedback_id, FALSE,
                reraised_by_except_HTTPException("404"))
    ELSE IF feedback_store[feedback_id].actor_id # current_user
    THEN Answer(op, current_user, feedback_id, TRUE,
                reraised_by_except_HTTPException("403"))
    ELSE IF feedback_store[feedback_id].status \notin {"pending", "under_review"}
    THEN Answer(op, current_user, feedback_id, FALSE,
                reraised_by_except_HTTPException("400"))
    ELSE /\ feedback_store' =
              Put(feedback_store, feedback_id,
                  [feedback_store[feedback_id] EXCEPT !.status = "rejected",
                                                      !.updated_at = now])
         /\ out' = Response(op, current_user, feedback_id, FALSE, "200")
         /\ last' = Call(op, current_user, feedback_id, "200")
         /\ UNCHANGED <<rule_overrides, audit_trail, now, reached_applied,
                        inflight, done, feedback_keys, override_keys>>

ApprovingReviews == {r \in Reviews : r.status = "approved"}

SubmitEndpoint(cap) ==
    \E u \in Users, ft \in FeedbackTypes, tt \in TargetTypes :
        submit_feedback_endpoint(u, ft, tt, "roi", RoiTooLow) /\ Bounded(cap)

ReviewEndpoint(cap) ==
    \E u \in Users, fid \in CallIds, r \in ApprovingReviews :
        review_feedback_endpoint(fid, r, u) /\ Bounded(cap)

ApplyEndpoint(cap) ==
    \E u \in Users, fid \in CallIds, app \in Applications :
        apply_feedback_endpoint(fid, app, u) /\ Bounded(cap)

WithdrawEndpoint(cap) ==
    \E u \in Users, fid \in CallIds :
        withdraw_feedback_endpoint(fid, u) /\ Bounded(cap)

\* ------------------------------------------------------------ the system
\* Calls by the users in U, carrying the reviews in R; a call's body runs as one step.
SubmitOn(U, T, D, cap) ==
    \E a \in U, ft \in FeedbackTypes, tt \in TargetTypes, t \in T, d \in D :
        /\ submit_feedback(a, ft, tt, t, d)
        /\ Bounded(cap) /\ Track /\ UNCHANGED <<inflight, done, out>>

SubmitWith(U, D, cap) == SubmitOn(U, {"roi"}, D, cap)

Submit(U, cap) == SubmitWith(U, {RoiTooLow}, cap)

Review(U, R, cap) ==
    \E a \in U, fid \in CallIds, r \in R :
        /\ review_feedback(fid, r, a)
        /\ Bounded(cap) /\ Track /\ UNCHANGED <<inflight, done, out>>

ApplyWith(U, A, cap) ==
    \E a \in U, fid \in CallIds, app \in A :
        /\ apply_feedback(fid, app, a)
        /\ Bounded(cap) /\ Track /\ UNCHANGED <<inflight, done, out>>

Apply(U, cap) == ApplyWith(U, Applications, cap)

Withdraw(U, cap) ==
    \E a \in U, fid \in CallIds :
        /\ withdraw_feedback(fid, a)
        /\ Bounded(cap) /\ Track /\ UNCHANGED <<inflight, done, out>>

Next ==
    \/ Submit(Users, MaxAudit)
    \/ Review(Users, Reviews, MaxAudit)
    \/ Apply(Users, MaxAudit)
    \/ Withdraw(Users, MaxAudit)
    \/ Tick

Spec == Init /\ [][Next]_vars

\* The administrator alone, approving or rejecting: the same operations,
\* followed further.
Admins == {u \in Users : RoleOf(u) = "finance_admin"}
AdminReviews == {r \in Reviews : r.status \in {"approved", "rejected"}}

NextDeep ==
    \/ Submit(Admins, MaxAuditDeep)
    \/ Review(Admins, AdminReviews, MaxAuditDeep)
    \/ Apply(Admins, MaxAuditDeep)
    \/ Withdraw(Admins, MaxAuditDeep)
    \/ Tick

SpecDeep == Init /\ [][NextDeep]_vars

\* Concurrent reviewers: a review call is in flight from the moment it is issued
\* until the event loop runs review_feedback's body, which has no await.
Reviewers == {u \in Users : RoleOf(u) \in {"finance_admin", "strategy_analyst"}}
Decisions == {r \in Reviews : r.status \in {"approved", "rejected"}}

IssueReview(U, R) ==
    \E a \in U, fid \in DOMAIN feedback_store, r \in R :
        /\ Cardinality(inflight) < MaxInflight
        /\ inflight' = inflight \cup
               {[reviewer |-> a, fid |-> fid, review |-> r, seen |-> StatusOf(fid)]}
        /\ UNCHANGED <<feedback_store, rule_overrides, audit_trail, now, last,
                       reached_applied, done, feedback_keys, override_keys, out>>

RunReview(cap) ==
    \E q \in inflight :
        /\ review_feedback(q.fid, q.review, q.reviewer)
        /\ Bounded(cap) /\ Track
        /\ inflight' = inflight \ {q}
        /\ done' = done \cup
               {[call |-> q,
                 old |-> IF q.fid \in DOMAIN feedback_store THEN StatusOf(q.fid) ELSE "",
                 result |-> last'.result,
                 peers |-> inflight \ {q}]}
        /\ UNCHANGED out

NextConc ==
    \/ Submit(Users, MaxAuditConc)
    \/ IssueReview(Reviewers, Decisions)
    \/ RunReview(MaxAuditConc)
    \/ Tick

SpecConc == Init /\ [][NextConc]_vars

\* Every user applying, after an admin or analyst approved.

NextRoles ==
    \/ Submit(Users, MaxAuditShort)
    \/ Review(Reviewers, ApprovingReviews, MaxAuditShort)
    \/ Apply(Users, MaxAuditShort)
    \/ Tick

SpecRoles == Init /\ [][NextRoles]_vars

\* The administrator's calls, the audit append of a call raising or not.
ReviewAuditRaises(U, R) ==
    \E a \in U, fid \in CallIds, r \in R :
        /\ review_feedback_audit_raises(fid, r, a)
        /\ Track /\ UNCHANGED <<inflight, done, out>>

ApplyAuditRaises(U) ==
    \E a \in U, fid \in CallIds, app \in Applications :
        /\ apply_feedback_audit_raises(fid, app, a)
        /\ Track /\ UNCHANGED <<inflight, done, out>>

WithdrawAuditRaises(U) ==
    \E a \in U, fid \in CallIds :
        /\ withdraw_feedback_audit_raises(fid, a)
        /\ Track /\ UNCHANGED <<inflight, done, out>>

NextFault ==
    \/ Submit(Admins, MaxAuditShort)
    \/ Review(Admins, AdminReviews, MaxAuditShort)
    \/ Apply(Admins, MaxAuditShort)
    \/ Withdraw(Admins, MaxAuditShort)
    \/ ReviewAuditRaises(Admins, AdminReviews)
    \/ ApplyAuditRaises(Admins)
    \/ WithdrawAuditRaises(Admins)
    \/ Tick

SpecFault == Init /\ [][NextFault]_vars

\* The administrator's calls and reads of the audit trail.
NextAudit ==
    \/ Submit(Admins, MaxAuditShort)
    \/ Review(Admins, AdminReviews, MaxAuditShort)
    \/ Apply(Admins, MaxAuditShort)
    \/ Withdraw(Admins, MaxAuditShort)
    \/ GetAuditTrail
    \/ Tick

SpecAudit == Init /\ [][NextAudit]_vars

\* Submissions by the admin and the analyst, approvals, and searches with filters.
NextSearch ==
    \/ SubmitWith(Reviewers, Descriptions, MaxAuditShort)
    \/ Review(Admins, ApprovingReviews, MaxAuditShort)
    \/ Search(FilterRequests)
    \/ Tick

SpecSearch == Init /\ [][NextSearch]_vars

\* Submissions with one description, and searches for pages.
NextPages ==
    \/ Submit(Reviewers, MaxAuditShort)
    \/ Search(PageRequests)
    \/ Tick

SpecPages == Init /\ [][NextPages]_vars

\* The administrator approving and applying with a window, and the listing.
NextOverrides ==
    \/ Submit(Admins, MaxAuditWindow)
    \/ Review(Admins, ApprovingReviews, MaxAuditWindow)
    \/ ApplyWith(Admins, WindowApplications, MaxAuditWindow)
    \/ GetRuleOverrides
    \/ Tick

SpecOverrides == Init /\ [][NextOverrides]_vars

\* The administrator approving and applying two rules again and again, and the listing.
NextRelist ==
    \/ Submit(Admins, MaxAuditList)
    \/ Review(Admins, ApprovingReviews, MaxAuditList)
    \/ ApplyWith(Admins, RuleApplications, MaxAuditList)
    \/ GetRuleOverrides

SpecRelist == Init /\ [][NextRelist]_vars

\* Two submitters, and an admin who takes both events through the workflow.
NextPair ==
    \/ Submit(Reviewers, MaxAuditPair)
    \/ Review(Admins, ApprovingReviews, MaxAuditPair)
    \/ Apply(Admins, MaxAuditPair)
    \/ Withdraw(Admins, MaxAuditPair)

SpecPair == Init /\ [][NextPair]_vars

\* Submissions on either target, with every transition after them.
NextTargets ==
    \/ SubmitOn(Admins, TargetIds, {RoiTooLow}, MaxAuditWindow)
    \/ Review(Admins, AdminReviews, MaxAuditWindow)
    \/ Apply(Admins, MaxAuditWindow)
    \/ Withdraw(Admins, MaxAuditWindow)
    \/ Tick

SpecTargets == Init /\ [][NextTargets]_vars

\* Calls through the endpoints, on events the service has stored.
NextApi ==
    \/ Submit(Users, MaxAuditShort)
    \/ SubmitEndpoint(MaxAuditShort)
    \/ ReviewEndpoint(MaxAuditShort)
    \/ ApplyEndpoint(MaxAuditShort)
    \/ WithdrawEndpoint(MaxAuditShort)
    \/ Tick

SpecApi == Init /\ [][NextApi]_vars

\* Permission checks.
NextPerm ==
    \/ HasPermission
    \/ AuthHasPermission
    \/ Tick

SpecPerm == Init /\ [][NextPerm]_vars

\* ------------------------------------------------------- reading a step
\* Every call leaves the clock alone and records itself in last; Tick moves the clock.
CallStep(op) == now' = now /\ last'.op = op

Transitions == {"review", "apply", "withdraw"}

\* the edges of the workflow's transition table
Edges ==
    ({"pending"} \X {"under_review", "approved", "rejected"})
    \cup ({"under_review"} \X {"under_review", "approved", "rejected"})
    \cup {<<"approved", "applied">>}
    \cup ({"pending", "under_review"} \X {"withdrawn"})

Terminal == {"applied", "rejected", "withdrawn"}

\* ------------------------------------------------------------------ claims
\* C1: over any sequence of submit, review, apply and withdraw calls the status
\* of an event changes only along the edges pending -> {under_review, approved,
\* rejected}, under_review -> {under_review, approved, rejected}, approved ->
\* applied and {pending, under_review} -> withdrawn: no call changes it otherwise.
C1_OnlyTableEdges ==
    [][\A f \in DOMAIN feedback_store :
          /\ f \in DOMAIN feedback_store'
          /\ feedback_store'[f].status # StatusOf(f)
          => <<StatusOf(f), feedback_store'[f].status>> \in Edges]_vars

\* C2: once an event is applied, rejected or withdrawn, no review, apply or
\* withdraw call changes its status.
C2_TerminalStays ==
    [][\A f \in DOMAIN feedback_store :
          /\ StatusOf(f) \in Terminal
          /\ \E op \in Transitions : CallStep(op)
          => /\ f \in DOMAIN feedback_store'
             /\ feedback_store'[f].status = StatusOf(f)]_vars

\* the overrides of a registry that reference event f
OverridesOf(reg, f) == {o \in DOMAIN reg : reg[o].feedback_id = f}

\* C3: apply on an existing event succeeds exactly when its status is approved;
\* a successful apply adds exactly one override to the registry, the override
\* references the event, and the event becomes applied.
C3_ApplyIffApproved ==
    [][CallStep("apply") /\ last'.fid \in DOMAIN feedback_store
          => LET f == last'.fid IN
             /\ last'.result = "ok" <=> StatusOf(f) = "approved"
             /\ last'.result = "ok" =>
                  /\ Cardinality(DOMAIN rule_overrides') =
                         Cardinality(DOMAIN rule_overrides) + 1
                  /\ \A o \in DOMAIN rule_overrides' \ DOMAIN rule_overrides :
                         rule_overrides'[o].feedback_id = f
                  /\ feedback_store'[f].status = "applied"]_vars

\* C4: an override referencing an event exists exactly when the event has
\* reached applied, an applied event has an override, and no event has two.
C4_OverrideIffApplied ==
    /\ \A f \in DOMAIN feedback_store :
          OverridesOf(rule_overrides, f) # {} <=> f \in reached_applied
    /\ \A f \in DOMAIN feedback_store :
          Cardinality(OverridesOf(rule_overrides, f)) <= 1

\* C5: withdraw succeeds only for the submitter or an admin and only from
\* pending or under_review; otherwise it fails and the status is unchanged.
C5_WithdrawGuarded ==
    [][CallStep("withdraw") /\ last'.fid \in DOMAIN feedback_store
          => LET f == last'.fid
                 allowed == /\ \/ feedback_store[f].actor_id = last'.actor
                               \/ RoleOf(last'.actor) = "finance_admin"
                            /\ StatusOf(f) \in {"pending", "under_review"}
             IN  /\ last'.result = "ok" => allowed
                 /\ ~allowed => /\ last'.result # "ok"
                                /\ feedback_store'[f].status = StatusOf(f)]_vars

\* C6: a successful review, apply or withdraw appends exactly one audit entry,
\* whose actor is the caller, whose target is the event, whose old status is the
\* status the event had and whose new status is the status it has now.
C6_OneMatchingAuditEntry ==
    [][(\E op \in Transitions : CallStep(op)) /\ last'.result = "ok"
          => /\ Len(audit_trail') = Len(audit_trail) + 1
             /\ SubSeq(audit_trail', 1, Len(audit_trail)) = audit_trail
             /\ LET e == audit_trail'[Len(audit_trail')]
                     f == last'.fid
                 IN  /\ e.actor_id = last'.actor
                     /\ e.target_type = "feedback"
                     /\ e.target_id = f
                     /\ "status" \in DOMAIN e.old_value
                     /\ e.old_value.status = StatusOf(f)
                     /\ "status" \in DOMAIN e.new_value
                     /\ e.new_value.status = feedback_store'[f].status]_vars

\* C7: of two review calls in flight together on the same pending event, one
\* approving and one rejecting, the one that runs second finds the status
\* already changed and fails: exactly one succeeds, and the decision of the
\* first is not overwritten.
C7_SecondReviewFails ==
    \A d1 \in done, d2 \in done :
        (/\ d1.call.fid = d2.call.fid
         /\ d1.call \in d2.peers
         /\ d1.call.seen = "pending" /\ d2.call.seen = "pending"
         /\ {d1.call.review.status, d2.call.review.status} = {"approved", "rejected"}
         /\ d2.old = "pending" /\ d2.result = "ok"
         /\ d1.old = d2.call.review.status)
        => d1.result # "ok"

\* C8: submit by an actor whose role lacks feedback:write fails, and stores no
\* event and appends no audit entry.
C8_SubmitNeedsWrite ==
    [][CallStep("submit") /\ ~has_permission(last'.actor, "feedback:write")
          => /\ last'.result # "ok"
             /\ feedback_store' = feedback_store
             /\ audit_trail' = audit_trail]_vars

\* C9: apply by an admin on an event that is not approved fails at the state
\* check, and leaves the store, the registry and the audit trail as they were.
C9_ApplyNotApprovedFails ==
    [][(/\ CallStep("apply")
        /\ RoleOf(last'.actor) = "finance_admin"
        /\ last'.fid \in DOMAIN feedback_store
        /\ StatusOf(last'.fid) # "approved")
       => (/\ last'.result = "must_be_approved"
           /\ feedback_store' = feedback_store
           /\ rule_overrides' = rule_overrides
           /\ audit_trail' = audit_trail)]_vars

C9_Witness ==
    /\ last.op = "apply"
    /\ last.result = "must_be_approved"
    /\ RoleOf(last.actor) = "finance_admin"
    /\ last.fid \in DOMAIN feedback_store
    /\ StatusOf(last.fid) = "pending"
    /\ rule_overrides = EmptyDict

\* C10: review changes an event only for an admin or an analyst; a call by
\* another role fails and leaves the event and the audit trail unchanged.
C10_ReviewNeedsAnalyst ==
    [][(/\ CallStep("review")
        /\ RoleOf(last'.actor) \notin {"finance_admin", "strategy_analyst"})
       => (/\ last'.result # "ok"
           /\ feedback_store' = feedback_store
           /\ audit_trail' = audit_trail)]_vars

\* C11: apply creates an override and moves the event to applied only for an
\* admin; a call on a stored event by any other role fails, creates no override
\* and leaves the event unchanged, even when the event is approved.
C11_ApplyNeedsAdmin ==
    [][(/\ CallStep("apply")
        /\ last'.fid \in DOMAIN feedback_store
        /\ RoleOf(last'.actor) # "finance_admin")
       => (/\ last'.result # "ok"
           /\ rule_overrides' = rule_overrides
           /\ feedback_store' = feedback_store)]_vars

\* C12: the audit trail is append-only: over every step, reads included, the
\* trail before the step is a prefix of the trail after it, so no entry is
\* removed, moved or changed.
C12_AuditAppendOnly ==
    [][/\ Len(audit_trail') >= Len(audit_trail)
       /\ SubSeq(audit_trail', 1, Len(audit_trail)) = audit_trail]_vars

\* a read returned the two stored entries newest first, the stored trail as it was
C12_Witness ==
    /\ out # None
    /\ out.op = "get_audit_trail"
    /\ Len(audit_trail) = 2
    /\ audit_trail[1].timestamp < audit_trail[2].timestamp
    /\ out.response = <<audit_trail[2], audit_trail[1]>>

\* C13: when the audit append of a review, apply or withdraw call fails, the call
\* leaves no partial effect: the event's status, the override registry and the
\* audit trail are as they were before the call.
C13_FailedAppendLeavesNothing ==
    [][((\E op \in Transitions : CallStep(op)) /\ last'.result = "audit_append_raised")
       => (/\ feedback_store'[last'.fid].status = StatusOf(last'.fid)
           /\ rule_overrides' = rule_overrides
           /\ audit_trail' = audit_trail)]_vars

\* C14: a submission whose generated id is already a key of the store fails, and
\* the event stored under that id stays as it was.
C14_DuplicateIdFails ==
    [][(CallStep("submit") /\ last'.fid \in DOMAIN feedback_store)
       => (/\ last'.result # "ok"
           /\ feedback_store'[last'.fid] = feedback_store[last'.fid]
           /\ audit_trail' = audit_trail)]_vars

\* the elements of a sequence
Range(s) == {s[i] : i \in 1 .. Len(s)}

\* the overrides of the registry
Registry == {rule_overrides[o] : o \in DOMAIN rule_overrides}

CreatedAt(oid) ==
    LET at == {i \in 1 .. Len(audit_trail) :
                 /\ audit_trail[i].action = "feedback_applied"
                 /\ audit_trail[i].target_id = oid}
    IN  IF at = {} THEN 0 ELSE CHOOSE i \in at : \A j \in at : j <= i

\* C16: the listing is ordered by effective_from descending, and two overrides of
\* equal effective_from appear in the order in which they were created.
C16_ListingOrder ==
    [][CallStep("get_rule_overrides")
       => \A i \in 1 .. Len(out'.response), j \in 1 .. Len(out'.response) :
             i < j =>
               LET a == out'.response[i]
                   b == out'.response[j]
               IN  /\ a.effective_from >= b.effective_from
                   /\ a.effective_from = b.effective_from
                        => CreatedAt(a.id) < CreatedAt(b.id)]_vars

\* C17: a search for page p >= 1 with page_size s in 1..100 over n matching
\* events returns the events at places (p-1)*s+1 .. min(p*s, n) of the sorted
\* matches, none when (p-1)*s >= n, and total_count = n whatever p and s are.
C17_PageOfMatches ==
    [][(/\ CallStep("search")
        /\ out'.request.page >= 1
        /\ out'.request.page_size \in 1 .. PageSizeMax)
       => LET p == out'.request.page
              ps == out'.request.page_size
              matches == sorted_matches(out'.request)
              n == Len(matches)
              count == IF (p - 1) * ps >= n THEN 0 ELSE Min(p * ps, n) - (p - 1) * ps
          IN  /\ last'.result = "ok"
              /\ out'.response.feedback = [i \in 1 .. count |-> matches[(p - 1) * ps + i]]
              /\ out'.response.total_count = n]_vars

\* page 2 of size 1 over two matches returned the second of them
C17_Witness ==
    /\ out # None
    /\ out.op = "search"
    /\ out.request.page = 2
    /\ out.request.page_size = 1
    /\ out.response # None
    /\ out.response.total_count = 2
    /\ out.response.feedback = <<sorted_matches(out.request)[2]>>

\* C18: a search with page < 1, page_size < 1 or page_size > 100 fails: no page
\* is returned for it, and the values are not cut into the range.
C18_OutOfRangeFails ==
    [][(/\ CallStep("search")
        /\ \/ out'.request.page < 1
           \/ out'.request.page_size < 1
           \/ out'.request.page_size > PageSizeMax)
       => (/\ last'.result = "validation_error"
           /\ out'.response = None)]_vars

\* a search for pages of 101 over a store holding an event failed
C18_Witness ==
    /\ out # None
    /\ out.op = "search"
    /\ out.request.page = 1
    /\ out.request.page_size = PageSizeMax + 1
    /\ out.response = None
    /\ last.op = "search"
    /\ last.result = "validation_error"
    /\ feedback_store # EmptyDict

\* the letters of a text in lower case
Lower(c) ==
    CASE c = "R" -> "r"
      [] c = "O" -> "o"
      [] c = "I" -> "i"
      [] OTHER -> c

\* text holds q somewhere, letter case apart
Contains(text, q) ==
    \E k \in 0 .. (Len(text) - Len(q)) :
        \A i \in 1 .. Len(q) : Lower(text[k + i]) = Lower(q[i])

\* event e passes every filter that request r gives
Satisfies(e, r) ==
    /\ r.status # None => e.status = r.status[1]
    /\ r.feedback_type # None => e.feedback_type = r.feedback_type[1]
    /\ r.target_type # None => e.target_type = r.target_type[1]
    /\ r.actor_role # None => e.actor_role = r.actor_role[1]
    /\ r.date_from # None => e.created_at >= r.date_from[1]
    /\ r.date_to # None => e.created_at <= r.date_to[1]
    /\ r.query # None => Contains(e.description, r.query[1])

\* C19: before pagination a search returns exactly the stored events passing every
\* filter given: status, feedback_type, target_type, actor_role, creation date in
\* [date_from, date_to] and the query matched against the description, case apart.
C19_AllFilters ==
    [][(/\ CallStep("search")
        /\ last'.result = "ok"
        /\ out'.request.page = 1
        /\ out'.request.page_size = PageSizeMax)
       => Range(out'.response.feedback) =
            {e \in Range(values(feedback_store, feedback_keys)) :
               Satisfies(e, out'.request)}]_vars

\* C20: in the role table the admin holds every capability that the analyst, the
\* marketing user or the read-only user holds; a check answers true exactly when
\* the capability is in the role's set, and a role outside the table holds none.
C20_AdminSuperset ==
    (out # None /\ out.op \in {"has_permission", "auth_has_permission"})
    => LET role == out.request.role
           c == out.request.permission
           admin == IF out.op = "has_permission"
                    THEN role_has_permission("finance_admin", c)
                    ELSE auth_has_permission("finance_admin", c)
           held == IF out.op = "has_permission"
                   THEN role_permissions(role)
                   ELSE PERMISSIONS(role)
       IN  /\ role \notin UserRole => ~out.response
           /\ (role \in UserRole /\ out.response) => admin
           /\ out.response <=> c \in held

\* the analyst was asked about ml:write and holds it
C20_Witness ==
    /\ out # None
    /\ out.op = "has_permission"
    /\ out.request = [role |-> "strategy_analyst", permission |-> "ml:write"]
    /\ out.response

Endpoints == {"submit_feedback_endpoint", "review_feedback_endpoint",
              "apply_feedback_endpoint", "withdraw_feedback_endpoint"}

\* C21: when the permission or role check of a feedback endpoint denies the
\* actor, the caller gets an authorization error (403), never an internal
\* failure.
C21_DenialIs403 ==
    (out # None /\ out.op \in Endpoints /\ out.denied) => out.response = "403"

Causes == {"not_found", "must_be_approved", "only_submitter_or_admin"}

\* C22: a review, apply or withdraw rejected for an unknown id, for a disallowed
\* source status or for an unauthorized actor reports an error kind of its own:
\* two rejections with different causes raise different kinds of error.
C22_DistinctErrorKinds ==
    [][(/\ last.op \in Transitions /\ last.result \in Causes
        /\ last'.op \in Transitions /\ last'.result \in Causes
        /\ last.result # last'.result)
       => exception_type(last.result) # exception_type(last'.result)]_vars

\* C23: a successful submit adds exactly one event to the store, pending and
\* carrying the submitter's id, appends exactly one audit entry whose actor is
\* the submitter and whose target is the new event, creates no override and
\* changes no event that was already stored.
C23_SubmitAddsOne ==
    [][CallStep("submit") /\ last'.result = "ok"
          => LET f == last'.fid IN
             /\ f \notin DOMAIN feedback_store
             /\ DOMAIN feedback_store' = DOMAIN feedback_store \cup {f}
             /\ feedback_store'[f].status = "pending"
             /\ feedback_store'[f].actor_id = last'.actor
             /\ Len(audit_trail') = Len(audit_trail) + 1
             /\ SubSeq(audit_trail', 1, Len(audit_trail)) = audit_trail
             /\ audit_trail'[Len(audit_trail')].actor_id = last'.actor
             /\ audit_trail'[Len(audit_trail')].target_id = f
             /\ rule_overrides' = rule_overrides
             /\ \A g \in DOMAIN feedback_store :
                    feedback_store'[g] = feedback_store[g]]_vars

\* C24: after a successful apply the event records applied_by equal to the
\* applier's id and an applied_at; in every state reached an event with status
\* applied has both fields set.
C24_AppliedByRecorded ==
    [][/\ (CallStep("apply") /\ last'.result = "ok")
          => /\ feedback_store'[last'.fid].applied_by = Some(last'.actor)
             /\ feedback_store'[last'.fid].applied_at # None
       /\ \A f \in DOMAIN feedback_store' :
             feedback_store'[f].status = "applied"
             => /\ feedback_store'[f].applied_by # None
                /\ feedback_store'[f].applied_at # None]_vars

\* C25: every override of the registry whose window has an end has that end at
\* or after its start; an apply whose window ends before it starts stores no
\* override.
C25_WindowOrdered ==
    \A o \in DOMAIN rule_overrides :
        rule_overrides[o].effective_until # None
        => rule_overrides[o].effective_until[1] >= rule_overrides[o].effective_from

\* C26: an event is never deleted or replaced: once stored under an id, the
\* store holds under that id, in every later state, an event with the same
\* submitter, feedback type, target and created_at, whatever calls follow.
C26_EventKept ==
    [][\A f \in DOMAIN feedback_store :
          /\ f \in DOMAIN feedback_store'
          /\ feedback_store'[f].actor_id = feedback_store[f].actor_id
          /\ feedback_store'[f].feedback_type = feedback_store[f].feedback_type
          /\ feedback_store'[f].target_type = feedback_store[f].target_type
          /\ feedback_store'[f].target_id = feedback_store[f].target_id
          /\ feedback_store'[f].created_at = feedback_store[f].created_at]_vars

\* C27: review, apply and withdraw called with an id that is not in the store
\* each fail as not found, and the failed call leaves the store, the override
\* registry and the audit trail unchanged.
C27_UnknownIdFails ==
    [][((\E op \in Transitions : CallStep(op))
        /\ last'.fid \notin DOMAIN feedback_store)
       => (/\ last'.result = "not_found"
           /\ feedback_store' = feedback_store
           /\ rule_overrides' = rule_overrides
           /\ audit_trail' = audit_trail)]_vars

C27_Witness ==
    /\ last.op = "withdraw"
    /\ last.result = "not_found"
    /\ last.fid \notin DOMAIN feedback_store
    /\ feedback_store # EmptyDict
    /\ Len(audit_trail) = 1

\* C28: events are independent: a review, apply or withdraw on an event,
\* whether it succeeds or fails, leaves every field of every other event
\* unchanged and leaves every override that references another event unchanged.
C28_OtherEventsUntouched ==
    [][(\E op \in Transitions : CallStep(op))
       => (/\ \A g \in DOMAIN feedback_store \ {last'.fid} :
                 /\ g \in DOMAIN feedback_store'
                 /\ feedback_store'[g] = feedback_store[g]
           /\ \A o \in DOMAIN rule_overrides :
                 rule_overrides[o].feedback_id # last'.fid
                 => /\ o \in DOMAIN rule_overrides'
                    /\ rule_overrides'[o] = rule_overrides[o])]_vars

\* an apply has succeeded on one event while another event, with an override of
\* its own, is in the store
C28_Witness ==
    /\ last.op = "apply"
    /\ last.result = "ok"
    /\ \E g \in DOMAIN feedback_store \ {last.fid} :
          /\ OverridesOf(rule_overrides, g) # {}
          /\ OverridesOf(rule_overrides, last.fid) # {}

\* C29: in every state reached each override of the registry references an
\* event that is in the store, and that event was approved at the moment the
\* override was created.
C29_OverrideRefersToApproved ==
    [][/\ \A o \in DOMAIN rule_overrides' :
             rule_overrides'[o].feedback_id \in DOMAIN feedback_store'
       /\ \A o \in DOMAIN rule_overrides' :
             (o \notin DOMAIN rule_overrides \/ rule_overrides'[o] # rule_overrides[o])
             => /\ rule_overrides'[o].feedback_id \in DOMAIN feedback_store
                /\ StatusOf(rule_overrides'[o].feedback_id) = "approved"]_vars

\* an override was created at this moment for an event that is now applied,
\* after an earlier event was rejected
C29_Witness ==
    /\ last.op = "apply"
    /\ last.result = "ok"
    /\ \E o \in DOMAIN rule_overrides :
          /\ rule_overrides[o].feedback_id = last.fid
          /\ rule_overrides[o].applied_at = now
    /\ \E g \in DOMAIN feedback_store : StatusOf(g) = "rejected"

\* C30: audit entry ids are the length of the trail plus one at the append, so
\* in every state reached the entry at position i (from 1) has id i: ids are
\* unique and increase in append order, whatever calls were made.
C30_AuditIdIsPosition ==
    \A i \in 1 .. Len(audit_trail) : audit_trail[i].id = i

\* a trail written by a submit, a review, an apply and a withdraw
C30_Witness ==
    /\ Len(audit_trail) >= 4
    /\ {"feedback_submitted", "feedback_applied", "feedback_withdrawn"}
           \subseteq {audit_trail[i].action : i \in 1 .. Len(audit_trail)}
    /\ \A i \in 1 .. Len(audit_trail) : audit_trail[i].id = i

=============================================================================
